---- MODULE Spec2Model ----
(***************************************************************************)
(* A model of futbin_sdk.client.FutbinClient: the TTL response cache, the  *)
(* retry policy around the transport, the facade methods and the           *)
(* concurrent batch fan-out of get_players_prices_concurrent.              *)
(***************************************************************************)
EXTENDS Integers, Sequences, FiniteSets, TLC

VARIABLES now, cache, enable_cache, upstream_ids, feed_len, call, ncalls, hist,
          orch, tasks, sem, waiters, done, peer,
          async_client, conns, scope, sync, other, resp

vars == <<now, cache, enable_cache, upstream_ids, feed_len, call, ncalls, hist,
          orch, tasks, sem, waiters, done, peer,
          async_client, conns, scope, sync, other, resp>>

\* the state of the batch fan-out: the call in the foreground (orch, tasks and
\* its semaphore), the order in which its batches completed, and a second
\* get_players_prices_concurrent call running on the same client
fanout == <<orch, tasks, sem, waiters, done, peer>>

\* the connection of the client: self._async_client, every httpx.AsyncClient
\* it has created, the position of the `async with` block, and whether the
\* call in progress runs under _run_sync
session == <<async_client, conns, scope, sync>>

(***************************************************************************)
(* Program constants (client.py:31-32) and the bounds of the model.        *)
(***************************************************************************)
DEFAULT_RETRY_ATTEMPTS == 3
DEFAULT_RETRY_DELAY == 2

\* FutbinClient(cache_ttl=..., cache_maxsize=...): the configuration checked
cache_ttl == 2
cache_maxsize == 1
\* the clock runs from 0 to MaxTime
MaxTime == 4
\* facade calls made by the sequential caller
MaxCalls == 2
\* facade calls made as concurrent tasks on one client
MaxRacers == 2
\* identifiers are 1..MaxId
MaxId == 2
\* longest identifier list handed to a bulk lookup
MaxLen == 2
\* longest "data" array the upstream returns from a listing endpoint
MaxFeed == 1
\* largest batch_size and largest max_concurrency handed to the fan-out
MaxBatchSize == 2
MaxConcurrency == 2

Ids == 1..MaxId

\* models.py Platform(StrEnum): the values of the enum
Platform == {"PS", "PC", "XB"}

(***************************************************************************)
(* Strings are sequences of characters; a literal without separators is    *)
(* one character of the sequence.                                          *)
(***************************************************************************)
Digit(d) == <<"0", "1", "2", "3", "4", "5", "6", "7", "8", "9">>[d + 1]

RECURSIVE Str(_)
\* str(n) of a non-negative int: its decimal digits
Str(n) == IF n < 10 THEN <<Digit(n)>> ELSE Str(n \div 10) \o <<Digit(n % 10)>>

RECURSIVE Join(_, _)
\* sep.join(parts), parts a sequence of strings
Join(sep, parts) ==
  IF parts = <<>> THEN <<>>
  ELSE IF Len(parts) = 1 THEN parts[1]
  ELSE parts[1] \o <<sep>> \o Join(sep, Tail(parts))

RECURSIVE Split(_, _)
\* s.split(sep): the upstream's reading of a comma-separated parameter
Split(s, sep) ==
  IF \A i \in 1..Len(s) : s[i] # sep THEN <<s>>
  ELSE LET i == CHOOSE j \in 1..Len(s) : s[j] = sep /\ \A k \in 1..(j - 1) : s[k] # sep
       IN  <<SubSeq(s, 1, i - 1)>> \o Split(SubSeq(s, i + 1, Len(s)), sep)

StrIds(ids) == [i \in 1..Len(ids) |-> Str(ids[i])]

Range(f) == {f[i] : i \in DOMAIN f}

(***************************************************************************)
(* Python dict helpers: a dict is a function, {} is the empty function.    *)
(***************************************************************************)
EmptyDict == <<>>

\* d.get(k, default)
DictGet(d, k, default) == IF k \in DOMAIN d THEN d[k] ELSE default

\* d[k] = v
DictSet(d, k, v) == [x \in (DOMAIN d) \cup {k} |-> IF x = k THEN v ELSE d[x]]

\* d.update(e)
DictUpdate(d, e) == [x \in (DOMAIN d) \cup (DOMAIN e) |-> IF x \in DOMAIN e THEN e[x] ELSE d[x]]

(***************************************************************************)
(* The response cache: cachetools.TTLCache(maxsize, ttl), a sequence of    *)
(* entries [key, value, expires] kept least recently used first.           *)
(***************************************************************************)
\* FutbinClient._get_cache_key(method, *args): ":".join([method, *args])
get_cache_key(method, args) == Join(":", <<<<method>>>> \o args)

RECURSIVE SelectLive(_, _)
\* TTLCache.expire(time): drop every entry with not (time < expires)
SelectLive(c, time) ==
  IF c = <<>> THEN <<>>
  ELSE IF time < Head(c).expires THEN <<Head(c)>> \o SelectLive(Tail(c), time)
       ELSE SelectLive(Tail(c), time)

CacheIndex(c, key) == {i \in 1..Len(c) : c[i].key = key}

RECURSIVE Without(_, _)
Without(c, key) ==
  IF c = <<>> THEN <<>>
  ELSE IF Head(c).key = key THEN Without(Tail(c), key)
       ELSE <<Head(c)>> \o Without(Tail(c), key)

\* the expiry test off by one: an entry of age ttl still counts as present
CacheContains_inclusive(c, key, time) == \E i \in CacheIndex(c, key) : time <= c[i].expires

\* TTLCache.__contains__(key) at time `time`
CacheContains(c, key, time) == \E i \in CacheIndex(c, key) : time < c[i].expires

\* the entry a hit reads
CacheEntry(c, key) == c[CHOOSE i \in CacheIndex(c, key) : TRUE]

\* TTLCache.get(key) on a hit moves the entry to the most recently used end
CacheTouch(c, key) == Without(c, key) \o <<CacheEntry(c, key)>>

\* a store that never makes room
Evict_keeps_all(c, room) == c

RECURSIVE Evict(_, _)
\* Cache.__setitem__: while currsize + 1 > maxsize: popitem() (least recently used)
Evict(c, room) == IF Len(c) > room THEN Evict(Tail(c), room) ELSE c

\* the insertion that counts the ttl from one tick earlier
CacheSet_short(c, key, value, time) ==
  LET live == SelectLive(c, time)
      kept == IF CacheIndex(live, key) # {} THEN Without(live, key)
              ELSE Evict(live, cache_maxsize - 1)
  IN  kept \o <<[key |-> key, value |-> value, expires |-> time + cache_ttl - 1]>>

\* TTLCache.__setitem__(key, value) at time `time`
CacheSet(c, key, value, time) ==
  LET live == SelectLive(c, time)
      kept == IF CacheIndex(live, key) # {} THEN Without(live, key)
              ELSE Evict(live, cache_maxsize - 1)
  IN  kept \o <<[key |-> key, value |-> value, expires |-> time + cache_ttl]>>

\* FutbinClient._get_from_cache(key): <<>> for None, <<value>> for a hit
get_from_cache(c, enabled, key, time) ==
  IF ~enabled THEN <<>>
  ELSE IF CacheContains(c, key, time) THEN <<CacheEntry(c, key).value>>
  ELSE <<>>

\* the store after _get_from_cache(key)
cache_after_get(c, enabled, key, time) ==
  IF enabled /\ CacheContains(c, key, time) THEN CacheTouch(c, key) ELSE c

\* a store that keeps the value a key already has (setdefault)
set_to_cache_if_absent(c, enabled, key, value, time) ==
  IF enabled /\ ~CacheContains(c, key, time) THEN CacheSet(c, key, value, time) ELSE c

\* FutbinClient._set_to_cache(key, value): the store afterwards
set_to_cache(c, enabled, key, value, time) ==
  IF enabled THEN CacheSet(c, key, value, time) ELSE c

(***************************************************************************)
(* The upstream service: a fixed price book over the identifiers it knows  *)
(* (upstream_ids) and listing endpoints that return feed_len items.  A     *)
(* JSON number is <<n>>, JSON null is <<>>.                                *)
(***************************************************************************)
PlatNo(p) == CASE p = "PS" -> 1 [] p = "PC" -> 2 [] OTHER -> 3

RawPrice(id, p) ==
  [LCPrice  |-> <<100 * id + PlatNo(p)>>,
   MinPrice |-> IF p = "XB" THEN <<>> ELSE <<id>>,
   MaxPrice |-> <<1000 * id>>,
   updated  |-> <<"t", Digit(PlatNo(p))>>]

IdOf(known, s) == CHOOSE i \in known : Str(i) = s

\* GET getPlayersPrice?player_ids=a,b&platform=p
PlayersPriceBody(known, params) ==
  LET asked == {x \in Range(Split(params.player_ids, ",")) : \E i \in known : Str(i) = x}
  IN  [x \in asked |->
         [prices |-> [q \in {params.platform} |-> RawPrice(IdOf(known, x), q)]]]

\* GET fetchPriceInformation?playerresource=r&platform=p
PriceInformationBody(known, params) ==
  IF \E i \in known : Str(i) = params.playerresource
  THEN LET id == IdOf(known, params.playerresource)
       IN  [price    |-> <<200 * id + PlatNo(params.platform)>>,
            MinPrice |-> <<>>,
            MaxPrice |-> <<2000 * id>>]
  ELSE EmptyDict

EndpointNo(e) ==
  CASE e = "getPopularPlayers" -> 1 [] e = "currentTOTW" -> 2 [] e = "newPlayers" -> 3
    [] e = "getLeaguesAndClubsAndroid" -> 4 [] OTHER -> 5

\* GET <listing endpoint>: {"data": [...]}
ListingBody(n, e) == [data |-> [i \in 1..n |-> [ID |-> <<10 * EndpointNo(e) + i>>]]]

\* what the upstream answers to a request [endpoint, params]
ApiBody(known, n, req) ==
  CASE req.endpoint = "getPlayersPrice" -> PlayersPriceBody(known, req.params)
    [] req.endpoint = "fetchPriceInformation" -> PriceInformationBody(known, req.params)
    [] OTHER -> ListingBody(n, req.endpoint)

(***************************************************************************)
(* Typed records (models.py).                                              *)
(***************************************************************************)
\* int(x or 0) of a JSON number or null
IntOr0(x) == IF x = <<>> THEN 0 ELSE x[1]

ZeroPrice == [price |-> 0, min_price |-> 0, max_price |-> 0, updated |-> <<>>]

\* PlayerPrice.from_api_response(data)
from_api_response(data) ==
  [price     |-> IntOr0(DictGet(data, "LCPrice", <<0>>)),
   min_price |-> IntOr0(DictGet(data, "MinPrice", <<0>>)),
   max_price |-> IntOr0(DictGet(data, "MaxPrice", <<0>>)),
   updated   |-> DictGet(data, "updated", <<>>)]

\* the record a listing method builds from one item of "data"
item_from_api_response(method, item) ==
  [record |-> method, futbin_id |-> IntOr0(DictGet(item, "ID", <<0>>))]

(***************************************************************************)
(* The facade methods (client.py:230-551): the cache key, the request and  *)
(* the parse of each.  An operation is [method, ids, platform].            *)
(***************************************************************************)
PriceMethods == {"get_player_price", "get_player_price_by_resource_id"}
BulkMethods == {"get_players_prices"}
ListMethods == {"get_popular_players", "get_totw", "get_latest_players",
                "get_leagues_and_clubs", "get_card_versions"}

Endpoint(method) ==
  CASE method = "get_player_price" -> "getPlayersPrice"
    [] method = "get_players_prices" -> "getPlayersPrice"
    [] method = "get_player_price_by_resource_id" -> "fetchPriceInformation"
    [] method = "get_popular_players" -> "getPopularPlayers"
    [] method = "get_totw" -> "currentTOTW"
    [] method = "get_latest_players" -> "newPlayers"
    [] method = "get_leagues_and_clubs" -> "getLeaguesAndClubsAndroid"
    [] OTHER -> "getCardVersions"

\* the key built without the platform argument
CacheKey_no_platform(op) ==
  CASE op.method \in PriceMethods -> get_cache_key(op.method, <<Str(op.ids[1])>>)
    [] op.method \in BulkMethods -> get_cache_key(op.method, <<Join(",", StrIds(op.ids))>>)
    [] OTHER -> get_cache_key(op.method, <<>>)

\* cache_key = self._get_cache_key(<method>, ...)
CacheKey(op) ==
  CASE op.method \in PriceMethods ->
         get_cache_key(op.method, <<Str(op.ids[1]), <<op.platform>>>>)
    [] op.method \in BulkMethods ->
         get_cache_key(op.method, <<Join(",", StrIds(op.ids)), <<op.platform>>>>)
    [] OTHER -> get_cache_key(op.method, <<>>)

\* params = {...}; self._api_get(<endpoint>, params)
Request(op) ==
  [endpoint |-> Endpoint(op.method),
   params |->
     CASE op.method = "get_player_price" ->
            [player_ids |-> Str(op.ids[1]), platform |-> op.platform]
       [] op.method = "get_player_price_by_resource_id" ->
            [playerresource |-> Str(op.ids[1]), platform |-> op.platform]
       [] op.method = "get_players_prices" ->
            [player_ids |-> Join(",", StrIds(op.ids)), platform |-> op.platform]
       [] OTHER -> EmptyDict]

\* a lookup that falls back to another platform's prices when the requested
\* one is missing
PlayerData_fallback(data, pid, p) ==
  LET prices == DictGet(DictGet(data, pid, EmptyDict), "prices", EmptyDict)
  IN  IF p \in DOMAIN prices THEN prices[p]
      ELSE IF DOMAIN prices # {} THEN prices[CHOOSE q \in DOMAIN prices : TRUE]
      ELSE EmptyDict

\* data.get(pid, {}).get("prices", {}).get(platform.value, {})
PlayerData(data, pid, p) ==
  DictGet(DictGet(DictGet(data, pid, EmptyDict), "prices", EmptyDict), p, EmptyDict)

RECURSIVE PricesLoop_skip_missing(_, _, _, _)
\* the loop that leaves out the identifiers the response does not hold
PricesLoop_skip_missing(result, data, ids, p) ==
  IF ids = <<>> THEN result
  ELSE PricesLoop_skip_missing(
         IF Str(Head(ids)) \in DOMAIN data
         THEN DictSet(result, Str(Head(ids)), from_api_response(PlayerData(data, Str(Head(ids)), p)))
         ELSE result,
         data, Tail(ids), p)

RECURSIVE PricesLoop(_, _, _, _)
\* for pid in player_ids: result[str(pid)] = PlayerPrice.from_api_response(...)
PricesLoop(result, data, ids, p) ==
  IF ids = <<>> THEN result
  ELSE PricesLoop(DictSet(result, Str(Head(ids)), from_api_response(PlayerData(data, Str(Head(ids)), p))),
                  data, Tail(ids), p)

\* the typed result a facade method builds from the response body
Parse(op, data) ==
  CASE op.method = "get_player_price" ->
         from_api_response(PlayerData(data, Str(op.ids[1]), op.platform))
    [] op.method = "get_player_price_by_resource_id" ->
         [price     |-> IntOr0(DictGet(data, "price", <<0>>)),
          min_price |-> IntOr0(DictGet(data, "MinPrice", <<0>>)),
          max_price |-> IntOr0(DictGet(data, "MaxPrice", <<0>>)),
          updated   |-> <<>>]
    [] op.method = "get_players_prices" ->
         PricesLoop(EmptyDict, data, op.ids, op.platform)
    [] OTHER ->
         LET items == DictGet(data, "data", <<>>)
         IN  [i \in 1..Len(items) |-> item_from_api_response(op.method, items[i])]

(***************************************************************************)
(* The retry policy of _api_get / _web_get (client.py:201-224):            *)
(* @retry(stop=stop_after_attempt(3), wait=wait_fixed(2),                  *)
(*        retry=retry_if_exception_type((RequestError, TimeoutException))) *)
(***************************************************************************)
\* how one transport attempt can fail
Retryable == {"Timeout", "ConnectionFailed"}
Fatal == {"HTTPStatus", "ParseError"}

\* the retry condition widened to httpx.HTTPError: status errors are retried too
retry_if_exception_type_http(kind) == kind \in Retryable \cup {"HTTPStatus"}

\* retry_if_exception_type((httpx.RequestError, httpx.TimeoutException))
retry_if_exception_type(kind) == kind \in Retryable

\* the stop condition off by one: a fourth attempt is made
stop_after_attempt_late(n) == n > DEFAULT_RETRY_ATTEMPTS

\* stop_after_attempt(DEFAULT_RETRY_ATTEMPTS), asked after attempt number n
stop_after_attempt(n) == n >= DEFAULT_RETRY_ATTEMPTS

\* wait_fixed(DEFAULT_RETRY_DELAY): when the next attempt may start
wait_fixed(time) == time + DEFAULT_RETRY_DELAY

\* what tenacity raises once stop is reached (reraise is left at its default)
retry_error(kind) == "RetryError"

NoOp == [method |-> "", ids |-> <<>>, platform |-> "PS"]

IdleTask ==
  [pc |-> "idle", op |-> NoOp, attempts |-> 0, wake |-> 0, hit |-> FALSE,
   value |-> <<>>, err |-> "", last_failure |-> ""]

\* the lookup tested with `if cached:` instead of `if cached is not None:`
BeginCall_truthy(op, c, enabled, time) ==
  LET cached == get_from_cache(c, enabled, CacheKey(op), time)
      base == [IdleTask EXCEPT !.op = op]
  IN  IF cached # <<>> /\ DOMAIN cached[1] # {}
      THEN [base EXCEPT !.pc = "returned", !.hit = TRUE, !.value = cached]
      ELSE [base EXCEPT !.pc = "request"]

\* a facade method up to its first await: the cache lookup
BeginCall(op, c, enabled, time) ==
  LET cached == get_from_cache(c, enabled, CacheKey(op), time)
      base == [IdleTask EXCEPT !.op = op]
  IN  IF cached # <<>>
      THEN [base EXCEPT !.pc = "returned", !.hit = TRUE, !.value = cached]
      ELSE [base EXCEPT !.pc = "request"]

\* an attempt answered 2xx with a JSON body: parse, then return
AfterSuccess(task, known, n) ==
  [task EXCEPT !.pc = "returned", !.attempts = @ + 1,
               !.value = <<Parse(task.op, ApiBody(known, n, Request(task.op)))>>]

\* an attempt that raised `kind`
AfterFailure(task, kind, time) ==
  LET n == task.attempts + 1
      t == [task EXCEPT !.attempts = n, !.last_failure = kind]
  IN  IF ~retry_if_exception_type(kind) THEN [t EXCEPT !.pc = "raised", !.err = kind]
      ELSE IF stop_after_attempt(n) THEN [t EXCEPT !.pc = "raised", !.err = retry_error(kind)]
      ELSE [t EXCEPT !.pc = "backoff", !.wake = wait_fixed(time)]

(***************************************************************************)
(* History of the store, kept for the statements about it: per key, the    *)
(* time and value of the last insertion, whether the entry is still in the *)
(* store (live: neither evicted for room nor cleared) and whether it was   *)
(* removed by clear_cache().                                               *)
(***************************************************************************)
Keys(c) == {c[i].key : i \in 1..Len(c)}

HistAfterSet(h, c, c2, key, value, time) ==
  LET gone == {k \in Keys(SelectLive(c, time)) : k \notin Keys(c2)}
  IN  [k \in (DOMAIN h) \cup {key} |->
         IF k = key THEN [t |-> time, v |-> value, live |-> TRUE, cleared |-> FALSE]
         ELSE IF k \in gone THEN [h[k] EXCEPT !.live = FALSE]
         ELSE h[k]]

HistAfterClear(h) == [k \in DOMAIN h |-> [h[k] EXCEPT !.live = FALSE, !.cleared = TRUE]]

IdleOrch ==
  [pc |-> "idle", ids |-> <<>>, platform |-> "PS", batch_size |-> 1,
   max_concurrency |-> 1, value |-> <<>>, err |-> ""]

\* no second get_players_prices_concurrent call
IdlePeer == [orch |-> IdleOrch, tasks |-> <<>>, sem |-> 0, waiters |-> <<>>, done |-> <<>>]

\* a second FutbinClient, not yet used
IdleOther == [cache |-> <<>>, call |-> IdleTask, async_client |-> <<>>, conns |-> <<>>]

\* no `async with` block entered: pc is the position of the block, conn the
\* connection __aenter__ opened, exc the exception the block was left with
NoScope == [pc |-> "outside", conn |-> <<>>, exc |-> ""]

\* no _run_sync in progress: in_loop is whether the caller runs inside an
\* event loop, before the number of connections made before the call,
\* opened the connection made during it
NoRun == [pc |-> "none", in_loop |-> FALSE, before |-> 0, opened |-> <<>>]

(***************************************************************************)
(* Spec: one client and one caller that makes facade calls one after the   *)
(* other while the clock runs.  Bulk lookups are made with the default     *)
(* platform.                                                               *)
(***************************************************************************)
IdSeqs(n) == UNION {[1..k -> Ids] : k \in 0..n}

Ops ==
  [method : PriceMethods, ids : [1..1 -> Ids], platform : Platform]
    \cup [method : BulkMethods, ids : IdSeqs(MaxLen), platform : {"PS"}]
    \cup [method : ListMethods, ids : {<<>>}, platform : {"PS"}]

Init ==
  /\ now = 0
  /\ cache = <<>>
  /\ enable_cache \in BOOLEAN
  /\ upstream_ids \in SUBSET Ids
  /\ feed_len \in 0..MaxFeed
  /\ call = IdleTask
  /\ ncalls = 0
  /\ hist = EmptyDict
  /\ orch = IdleOrch
  /\ tasks = <<>>
  /\ sem = 0
  /\ waiters = <<>>
  /\ done = <<>>
  /\ peer = IdlePeer
  /\ async_client = <<>>
  /\ conns = <<>>
  /\ scope = NoScope
  /\ sync = NoRun
  /\ other = IdleOther
  /\ resp = <<>>

Tick ==
  /\ now < MaxTime
  /\ now' = now + 1
  /\ UNCHANGED <<session, other, resp, cache, enable_cache, upstream_ids, feed_len, call, ncalls, hist, fanout>>

\* await client.<method>(...), up to the first await
Call(op) ==
  /\ call.pc \in {"idle", "returned", "raised"}
  /\ ncalls < MaxCalls
  /\ ncalls' = ncalls + 1
  /\ call' = BeginCall(op, cache, enable_cache, now)
  /\ cache' = cache_after_get(cache, enable_cache, CacheKey(op), now)
  /\ UNCHANGED <<session, other, resp, now, enable_cache, upstream_ids, feed_len, hist, fanout>>

\* the attempt in flight is answered: the method parses, stores and returns
RespondOk ==
  /\ call.pc = "request"
  /\ call' = AfterSuccess(call, upstream_ids, feed_len)
  /\ cache' = set_to_cache(cache, enable_cache, CacheKey(call.op), call'.value[1], now)
  /\ hist' = IF enable_cache
             THEN HistAfterSet(hist, cache, cache', CacheKey(call.op), call'.value[1], now)
             ELSE hist
  /\ UNCHANGED <<session, other, resp, now, enable_cache, upstream_ids, feed_len, ncalls, fanout>>

\* a failure handler that stores an empty result under the key of the call
RespondFail_stores_empty(kind) ==
  /\ call.pc = "request"
  /\ call' = AfterFailure(call, kind, now)
  /\ cache' = IF call'.pc = "raised"
              THEN set_to_cache(cache, enable_cache, CacheKey(call.op), EmptyDict, now)
              ELSE cache
  /\ UNCHANGED <<session, other, resp, now, enable_cache, upstream_ids, feed_len, ncalls, hist, fanout>>

\* the attempt in flight raises
RespondFail(kind) ==
  /\ call.pc = "request"
  /\ call' = AfterFailure(call, kind, now)
  /\ UNCHANGED <<session, other, resp, now, cache, enable_cache, upstream_ids, feed_len, ncalls, hist, fanout>>

\* the backoff sleep is over: the next attempt starts
Wake ==
  /\ call.pc = "backoff"
  /\ now >= call.wake
  /\ call' = [call EXCEPT !.pc = "request", !.wake = 0]
  /\ UNCHANGED <<session, other, resp, now, cache, enable_cache, upstream_ids, feed_len, ncalls, hist, fanout>>

\* client.clear_cache()
ClearCache ==
  /\ call.pc \in {"idle", "returned", "raised"}
  /\ cache # <<>>
  /\ cache' = <<>>
  /\ hist' = HistAfterClear(hist)
  /\ UNCHANGED <<session, other, resp, now, enable_cache, upstream_ids, feed_len, call, ncalls, fanout>>

Next ==
  \/ Tick
  \/ \E op \in Ops : Call(op)
  \/ RespondOk
  \/ \E kind \in Retryable \cup Fatal : RespondFail(kind)
  \/ Wake
  \/ ClearCache

Spec == Init /\ [][Next]_vars

(***************************************************************************)
(* get_players_prices_concurrent (client.py:342-371): the batches, the     *)
(* asyncio.Semaphore gate and the gather/merge.  tasks[i] is the task that *)
(* runs fetch_batch(batches[i]); it is "created" until it first runs,      *)
(* "waiting" while blocked in semaphore.acquire(), "admitted" once a       *)
(* release handed it the slot, then a get_players_prices call.             *)
(***************************************************************************)
RECURSIVE Batches_full_only(_, _)
\* the slicing that stops at len(player_ids) // batch_size full batches
Batches_full_only(ids, batch_size) ==
  IF Len(ids) < batch_size THEN <<>>
  ELSE <<SubSeq(ids, 1, batch_size)>>
         \o Batches_full_only(SubSeq(ids, batch_size + 1, Len(ids)), batch_size)

RECURSIVE Batches(_, _)
\* [player_ids[i : i + batch_size] for i in range(0, len(player_ids), batch_size)]
\* for a step other than 0; range() with a negative step is empty
Batches(ids, batch_size) ==
  IF ids = <<>> \/ batch_size < 0 THEN <<>>
  ELSE IF Len(ids) <= batch_size THEN <<ids>>
  ELSE <<SubSeq(ids, 1, batch_size)>> \o Batches(SubSeq(ids, batch_size + 1, Len(ids)), batch_size)

BulkOp(ids, p) == [method |-> "get_players_prices", ids |-> ids, platform |-> p]

\* the merge that keeps only the last batch's result
Merge_last_only(merged, results) ==
  IF results = <<>> THEN merged ELSE results[Len(results)]

RECURSIVE Merge(_, _)
\* merged = {}; for batch_result in results: merged.update(batch_result)
Merge(merged, results) ==
  IF results = <<>> THEN merged
  ELSE Merge(DictUpdate(merged, Head(results)), Tail(results))

\* the gate that only looks at the queue of waiters, not at the value
Locked_ignores_value(value, queue) == queue # <<>>

\* Semaphore.locked()
Locked(value, queue) == value = 0 \/ queue # <<>>

\* batch calls admitted past the gate and not yet finished
InFlight == {i \in 1..Len(tasks) : tasks[i].pc \in {"admitted", "request", "backoff"}}

\* a release that gives the slot back without waking the first waiter
Release_no_wakeup(ts, value, queue) == [tasks |-> ts, sem |-> value + 1, waiters |-> queue]

\* Semaphore.release(): the slot goes to the first waiter, if any
Release(ts, value, queue) ==
  IF queue = <<>> THEN [tasks |-> ts, sem |-> value + 1, waiters |-> queue]
  ELSE [tasks |-> [ts EXCEPT ![Head(queue)].pc = "admitted"], sem |-> value,
        waiters |-> Tail(queue)]

\* a gather that drops the exceptions of its children
OrchAfterRaise_swallow(o, err) == o

\* gather(): the first batch to raise fails the whole call
OrchAfterRaise(o, err) == IF o.pc = "gather" THEN [o EXCEPT !.pc = "raised", !.err = err] ELSE o

\* asyncio.Semaphore(value): ValueError for a negative value
SemaphoreRejects(value) == value < 0

\* range(0, n, step): ValueError for a step of 0
RangeRejects(step) == step = 0

\* which failures the transport shows in the fan-out
BatchFailures == {"Timeout", "HTTPStatus"}

InitBatch ==
  /\ now = 0
  /\ cache = <<>>
  /\ enable_cache \in BOOLEAN
  /\ upstream_ids \in SUBSET Ids
  /\ feed_len = 0
  /\ call = IdleTask
  /\ ncalls = 0
  /\ hist = EmptyDict
  /\ orch = IdleOrch
  /\ tasks = <<>>
  /\ sem = 0
  /\ waiters = <<>>
  /\ done = <<>>
  /\ peer = IdlePeer
  /\ async_client = <<>>
  /\ conns = <<>>
  /\ scope = NoScope
  /\ sync = NoRun
  /\ other = IdleOther
  /\ resp = <<>>

BatchTick ==
  /\ now < MaxTime
  /\ orch.pc # "idle"
  /\ now' = now + 1
  /\ UNCHANGED <<session, other, resp, cache, enable_cache, upstream_ids, feed_len, call, ncalls, hist, fanout>>

\* await client.get_players_prices_concurrent(ids, platform, batch_size, max_concurrency),
\* up to the await of gather
StartConcurrent(ids, p, batch_size, max_concurrency) ==
  /\ orch.pc = "idle"
  /\ IF SemaphoreRejects(max_concurrency) \/ RangeRejects(batch_size)
     THEN /\ tasks' = <<>>
          /\ orch' = [pc |-> "raised", ids |-> ids, platform |-> p, batch_size |-> batch_size,
                      max_concurrency |-> max_concurrency, value |-> <<>>, err |-> "ValueError"]
          /\ sem' = 0
     ELSE LET batches == Batches(ids, batch_size)
          IN  /\ tasks' = [i \in 1..Len(batches) |->
                             [IdleTask EXCEPT !.pc = "created", !.op = BulkOp(batches[i], p)]]
              /\ orch' = [pc |-> IF batches = <<>> THEN "returned" ELSE "gather",
                          ids |-> ids, platform |-> p, batch_size |-> batch_size,
                          max_concurrency |-> max_concurrency,
                          value |-> IF batches = <<>> THEN <<Merge(EmptyDict, <<>>)>> ELSE <<>>,
                          err |-> ""]
              /\ sem' = max_concurrency
  /\ waiters' = <<>>
  /\ done' = <<>>
  /\ UNCHANGED <<session, other, resp, peer, now, cache, enable_cache, upstream_ids, feed_len, call, ncalls, hist>>

\* a batch task past the gate runs get_players_prices up to its first await
EnterBatch(i, ts, value, queue) ==
  LET t == BeginCall(ts[i].op, cache, enable_cache, now)
      rel == Release([ts EXCEPT ![i] = t], value, queue)
  IN  /\ cache' = cache_after_get(cache, enable_cache, CacheKey(ts[i].op), now)
      /\ IF t.pc = "returned"
         THEN /\ tasks' = rel.tasks
              /\ sem' = rel.sem
              /\ waiters' = rel.waiters
              /\ done' = Append(done, i)
         ELSE /\ tasks' = [ts EXCEPT ![i] = t]
              /\ sem' = value
              /\ waiters' = queue
              /\ done' = done

\* the task of batch i runs for the first time: async with semaphore
TaskStart(i) ==
  /\ tasks[i].pc = "created"
  /\ \A j \in 1..(i - 1) : tasks[j].pc # "created"
  /\ IF Locked(sem, waiters)
     THEN /\ tasks' = [tasks EXCEPT ![i].pc = "waiting"]
          /\ waiters' = Append(waiters, i)
          /\ UNCHANGED <<sem, cache, done>>
     ELSE EnterBatch(i, tasks, sem - 1, waiters)
  /\ UNCHANGED <<session, other, resp, peer, now, enable_cache, upstream_ids, feed_len, call, ncalls, hist, orch>>

\* a woken waiter resumes inside the gate
TaskResume(i) ==
  /\ tasks[i].pc = "admitted"
  /\ EnterBatch(i, tasks, sem, waiters)
  /\ UNCHANGED <<session, other, resp, peer, now, enable_cache, upstream_ids, feed_len, call, ncalls, hist, orch>>

\* the attempt of batch i is answered: parse, store, return, leave the gate
TaskRespondOk(i) ==
  /\ tasks[i].pc = "request"
  /\ \A j \in 1..Len(tasks) : tasks[j].pc # "created"
  /\ LET t == AfterSuccess(tasks[i], upstream_ids, feed_len)
         rel == Release([tasks EXCEPT ![i] = t], sem, waiters)
     IN  /\ cache' = set_to_cache(cache, enable_cache, CacheKey(t.op), t.value[1], now)
         /\ tasks' = rel.tasks
         /\ sem' = rel.sem
         /\ waiters' = rel.waiters
         /\ done' = Append(done, i)
  /\ UNCHANGED <<session, other, resp, peer, now, enable_cache, upstream_ids, feed_len, call, ncalls, hist, orch>>

\* the attempt of batch i raises: back off inside the gate, or raise and leave it
TaskRespondFail(i, kind) ==
  /\ tasks[i].pc = "request"
  /\ \A j \in 1..Len(tasks) : tasks[j].pc # "created"
  /\ LET t == AfterFailure(tasks[i], kind, now)
         rel == Release([tasks EXCEPT ![i] = t], sem, waiters)
     IN  IF t.pc = "raised"
         THEN /\ tasks' = rel.tasks
              /\ sem' = rel.sem
              /\ waiters' = rel.waiters
              /\ orch' = OrchAfterRaise(orch, t.err)
              /\ done' = Append(done, i)
         ELSE /\ tasks' = [tasks EXCEPT ![i] = t]
              /\ UNCHANGED <<sem, waiters, orch, done>>
  /\ UNCHANGED <<session, other, resp, peer, now, cache, enable_cache, upstream_ids, feed_len, call, ncalls, hist>>

\* the backoff sleep of batch i is over
TaskWake(i) ==
  /\ tasks[i].pc = "backoff"
  /\ now >= tasks[i].wake
  /\ tasks' = [tasks EXCEPT ![i].pc = "request", ![i].wake = 0]
  /\ UNCHANGED <<session, other, resp, now, cache, enable_cache, upstream_ids, feed_len, call, ncalls, hist,
                 orch, sem, waiters, done, peer>>

\* a wait that returns at the first completed batch and merges what is there
GatherReturn_first_completed ==
  /\ orch.pc = "gather"
  /\ \E i \in 1..Len(tasks) : tasks[i].pc = "returned"
  /\ orch' = [orch EXCEPT !.pc = "returned",
                          !.value = <<Merge(EmptyDict,
                                            [k \in 1..Len(done) |->
                                               IF tasks[done[k]].pc = "returned"
                                               THEN tasks[done[k]].value[1] ELSE EmptyDict])>>]
  /\ UNCHANGED <<session, other, resp, now, cache, enable_cache, upstream_ids, feed_len, call, ncalls, hist,
                 tasks, sem, waiters, done, peer>>

\* gather() has every result: merge them in batch order and return
GatherReturn ==
  /\ orch.pc = "gather"
  /\ \A i \in 1..Len(tasks) : tasks[i].pc = "returned"
  /\ orch' = [orch EXCEPT !.pc = "returned",
                          !.value = <<Merge(EmptyDict, [i \in 1..Len(tasks) |-> tasks[i].value[1]])>>]
  /\ UNCHANGED <<session, other, resp, now, cache, enable_cache, upstream_ids, feed_len, call, ncalls, hist,
                 tasks, sem, waiters, done, peer>>

\* a sleep shielded from cancellation: a batch that is backing off goes on
CancelTask_shield_sleep(t) ==
  IF t.pc \in {"returned", "raised", "backoff"} THEN t
  ELSE [t EXCEPT !.pc = "cancelled", !.err = "CancelledError"]

\* Task.cancel() on a child of gather(): CancelledError is raised at the await
\* the child is suspended in; a finished child is left alone
CancelTask(t) ==
  IF t.pc \in {"returned", "raised"} THEN t
  ELSE [t EXCEPT !.pc = "cancelled", !.err = "CancelledError"]

\* the task awaiting gather() is cancelled: gather cancels every child, each
\* child leaves `async with semaphore` on its way out, no waiter is left
CancelConcurrent ==
  /\ orch.pc = "gather"
  /\ tasks' = [i \in 1..Len(tasks) |-> CancelTask(tasks[i])]
  /\ sem' = sem + Cardinality({i \in InFlight : tasks'[i].pc = "cancelled"})
  /\ waiters' = <<>>
  /\ orch' = [orch EXCEPT !.pc = "cancelled", !.err = "CancelledError"]
  /\ UNCHANGED <<session, other, resp, now, cache, enable_cache, upstream_ids, feed_len, call, ncalls, hist,
                 done, peer>>

NextBatch ==
  \/ BatchTick
  \/ \E ids \in IdSeqs(MaxLen), p \in Platform, b \in 1..MaxBatchSize, m \in 1..MaxConcurrency :
       StartConcurrent(ids, p, b, m)
  \/ \E i \in 1..Len(tasks) : TaskStart(i)
  \/ \E i \in 1..Len(tasks) : TaskResume(i)
  \/ \E i \in 1..Len(tasks) : TaskRespondOk(i)
  \/ \E i \in 1..Len(tasks), kind \in BatchFailures : TaskRespondFail(i, kind)
  \/ \E i \in 1..Len(tasks) : TaskWake(i)
  \/ GatherReturn
  \/ CancelConcurrent

SpecBatch == InitBatch /\ [][NextBatch]_vars

(***************************************************************************)
(* SpecBatchFair: one get_players_prices_concurrent call on an event loop  *)
(* that runs every task that is ready, with a clock that goes on and an    *)
(* upstream that answers every request, with a success or a failure.       *)
(* Nobody cancels the call.  Time is kept relative to the present: `now`   *)
(* stays where it is and a tick of the clock moves every pending wake-up   *)
(* and every expiry one unit closer.                                       *)
(***************************************************************************)
Earlier(t) == IF t > 0 THEN t - 1 ELSE 0

\* the clock advances by one unit
ClockTick ==
  /\ orch.pc # "idle"
  /\ tasks' = [i \in 1..Len(tasks) |-> [tasks[i] EXCEPT !.wake = Earlier(@)]]
  /\ cache' = [i \in 1..Len(cache) |-> [cache[i] EXCEPT !.expires = Earlier(@)]]
  /\ UNCHANGED <<session, other, resp, now, enable_cache, upstream_ids, feed_len, call, ncalls, hist,
                 orch, sem, waiters, done, peer>>

\* the event loop runs the task of batch i, or the transport answers it
TaskStep(i) ==
  /\ i \in 1..Len(tasks)
  /\ \/ TaskStart(i)
     \/ TaskResume(i)
     \/ TaskRespondOk(i)
     \/ \E kind \in BatchFailures : TaskRespondFail(i, kind)
     \/ TaskWake(i)

\* the enabling condition of TaskStep(i): the task of batch i is ready to
\* run, or has a request out that the transport can answer
TaskReady(i) ==
  /\ i \in 1..Len(tasks)
  /\ \/ tasks[i].pc = "created" /\ \A j \in 1..(i - 1) : tasks[j].pc # "created"
     \/ tasks[i].pc = "admitted"
     \/ tasks[i].pc = "request" /\ \A j \in 1..Len(tasks) : tasks[j].pc # "created"
     \/ tasks[i].pc = "backoff" /\ now >= tasks[i].wake

\* weak fairness of TaskStep(i), with its enabling condition written out
TaskFair(i) == []<>(~TaskReady(i)) \/ []<><<TaskStep(i)>>_vars

InitBatchFair ==
  /\ InitBatch
  /\ upstream_ids = Ids

NextBatchFair ==
  \/ ClockTick
  \/ \E ids \in IdSeqs(MaxLen), b \in 1..MaxBatchSize, m \in 1..MaxConcurrency :
       StartConcurrent(ids, "PS", b, m)
  \/ \E i \in 1..MaxLen : TaskStep(i)
  \/ GatherReturn

SpecBatchFair ==
  /\ InitBatchFair
  /\ [][NextBatchFair]_vars
  /\ WF_vars(ClockTick)
  /\ \A i \in 1..MaxLen : TaskFair(i)
  /\ WF_vars(GatherReturn)

(***************************************************************************)
(* SpecParams: get_players_prices_concurrent called with any batch_size    *)
(* and max_concurrency, zero and negative ones included, against a         *)
(* transport that answers.                                                 *)
(***************************************************************************)
InvalidParams == {-1, 0}

InitParams ==
  /\ InitBatch
  /\ upstream_ids = Ids

NextParams ==
  \/ \E ids \in IdSeqs(MaxLen), b \in InvalidParams \cup (1..MaxBatchSize),
        m \in InvalidParams \cup (1..MaxConcurrency) :
       StartConcurrent(ids, "PS", b, m)
  \/ \E i \in 1..Len(tasks) : TaskStart(i)
  \/ \E i \in 1..Len(tasks) : TaskResume(i)
  \/ \E i \in 1..Len(tasks) : TaskRespondOk(i)
  \/ GatherReturn

SpecParams == InitParams /\ [][NextParams]_vars

(***************************************************************************)
(* SpecShared: two get_players_prices_concurrent calls running at the same *)
(* time on one client, against a transport that answers.  Each call builds *)
(* its own asyncio.Semaphore (client.py:360); both use the client's cache. *)
(* The variables orch, tasks, sem, waiters, done hold the call whose tasks *)
(* the event loop is running, peer holds the other call.                   *)
(***************************************************************************)
\* the batch calls of the other call that are past its gate and unfinished
PeerInFlight ==
  {i \in 1..Len(peer.tasks) : peer.tasks[i].pc \in {"admitted", "request", "backoff"}}

\* the event loop turns from the tasks of one call to the tasks of the other
Switch ==
  /\ orch.pc # "idle"
  /\ peer' = [orch |-> orch, tasks |-> tasks, sem |-> sem, waiters |-> waiters, done |-> done]
  /\ orch' = peer.orch
  /\ tasks' = peer.tasks
  /\ sem' = peer.sem
  /\ waiters' = peer.waiters
  /\ done' = peer.done
  /\ UNCHANGED <<session, other, resp, now, cache, enable_cache, upstream_ids, feed_len, call, ncalls, hist>>

InitShared == InitBatch /\ upstream_ids = Ids

NextShared ==
  \/ \E ids \in IdSeqs(MaxLen), b \in 1..MaxBatchSize, m \in 1..MaxConcurrency :
       StartConcurrent(ids, "PS", b, m)
  \/ \E i \in 1..Len(tasks) : TaskStart(i)
  \/ \E i \in 1..Len(tasks) : TaskResume(i)
  \/ \E i \in 1..Len(tasks) : TaskRespondOk(i)
  \/ GatherReturn
  \/ Switch

SpecShared == InitShared /\ [][NextShared]_vars

(***************************************************************************)
(* The connection of the client (client.py:58-165).  A client is the       *)
(* record [cache, call, async_client, conns]: async_client is <<>> for     *)
(* None and <<n>> for the n-th httpx.AsyncClient the client created,       *)
(* conns[n] is "open" or "closed".                                         *)
(***************************************************************************)
\* the client held in the variables
Me == [cache |-> cache, call |-> call, async_client |-> async_client, conns |-> conns]

Put(c) ==
  /\ cache' = c.cache
  /\ call' = c.call
  /\ async_client' = c.async_client
  /\ conns' = c.conns

Finished(c) == c.call.pc \in {"returned", "raised"}

Quiet(c) == c.call.pc \in {"idle", "returned", "raised"}

\* self._async_client = httpx.AsyncClient(...)
NewConnection(c) ==
  [c EXCEPT !.conns = Append(c.conns, "open"), !.async_client = <<Len(c.conns) + 1>>]

\* FutbinClient.__aenter__
aenter(c) == NewConnection(c)

\* an exit that tears down only when the block ended without an exception
aexit_only_clean(c, exc) ==
  IF c.async_client # <<>> /\ exc = ""
  THEN [c EXCEPT !.conns[c.async_client[1]] = "closed", !.async_client = <<>>]
  ELSE c

\* FutbinClient.__aexit__(*args): the exception is not looked at
aexit(c, exc) ==
  IF c.async_client # <<>>
  THEN [c EXCEPT !.conns[c.async_client[1]] = "closed", !.async_client = <<>>]
  ELSE c

\* the property FutbinClient.async_client: created on first use
async_client_property(c) == IF c.async_client = <<>> THEN NewConnection(c) ELSE c

\* self.async_client.get(url): a closed httpx.AsyncClient refuses to send
Send(c, time) ==
  LET a == async_client_property(c)
  IN  IF a.conns[a.async_client[1]] = "closed"
      THEN [a EXCEPT !.call = AfterFailure(a.call, "RuntimeError", time)]
      ELSE a

\* a facade coroutine up to its first await
Begin(c, op, time) ==
  LET t == BeginCall(op, c.cache, enable_cache, time)
      c1 == [c EXCEPT !.call = t,
                      !.cache = cache_after_get(c.cache, enable_cache, CacheKey(op), time)]
  IN  IF t.pc = "request" THEN Send(c1, time) ELSE c1

\* the attempt in flight is answered: parse, store, return
Ok(c, time) ==
  LET t == AfterSuccess(c.call, upstream_ids, feed_len)
  IN  [c EXCEPT !.call = t,
                !.cache = set_to_cache(c.cache, enable_cache, CacheKey(t.op), t.value[1], time)]

\* the attempt in flight raises
Fail(c, kind, time) == [c EXCEPT !.call = AfterFailure(c.call, kind, time)]

\* the backoff is over: the next attempt is sent
Woken(c, time) == Send([c EXCEPT !.call = [c.call EXCEPT !.pc = "request", !.wake = 0]], time)

\* _run_sync, lines 65-72: outside a running loop a connection left on the
\* client is forgotten (not closed)
run_sync_reset(c, in_loop) ==
  IF c.async_client # <<>> /\ ~in_loop THEN [c EXCEPT !.async_client = <<>>] ELSE c

\* a cleanup that closes the connection but leaves it on the client
run_with_cleanup_keeps(c) ==
  IF Finished(c) /\ c.async_client # <<>>
  THEN [c EXCEPT !.conns[c.async_client[1]] = "closed"]
  ELSE c

\* run_with_cleanup, the finally clause: once the coroutine is over the
\* connection on the client is closed and forgotten
run_with_cleanup(c) ==
  IF Finished(c) /\ c.async_client # <<>>
  THEN [c EXCEPT !.conns[c.async_client[1]] = "closed", !.async_client = <<>>]
  ELSE c

\* the state of _run_sync after a step of its coroutine
SyncAfter(run, c) ==
  [run EXCEPT !.pc = IF Finished(c) THEN "finished" ELSE "running",
              !.opened = IF Len(c.conns) > run.before THEN <<Len(c.conns)>> ELSE <<>>]

(***************************************************************************)
(* SpecSession: one client used through an `async with` block, through     *)
(* bare awaits and through the *_sync wrappers, one call after the other.  *)
(***************************************************************************)
SessionOps ==
  [method : {"get_player_price"}, ids : [1..1 -> Ids], platform : {"PS"}]
    \cup [method : {"get_popular_players"}, ids : {<<>>}, platform : {"PS"}]

InitSession ==
  /\ Init
  /\ upstream_ids = Ids
  /\ feed_len = 0

\* async with client: entry
Enter ==
  /\ scope.pc = "outside"
  /\ Quiet(Me)
  /\ Put(aenter(Me))
  /\ scope' = [pc |-> "inside", conn |-> <<Len(conns) + 1>>, exc |-> ""]
  /\ sync' = NoRun
  /\ UNCHANGED <<other, resp, now, enable_cache, upstream_ids, feed_len, ncalls, hist, fanout>>

\* the block is left, normally or with the exception of the call that raised
Exit ==
  /\ scope.pc = "inside"
  /\ Quiet(Me)
  /\ LET exc == IF call.pc = "raised" THEN call.err ELSE ""
     IN  /\ Put(aexit(Me, exc))
         /\ scope' = [scope EXCEPT !.pc = "left", !.exc = exc]
  /\ sync' = NoRun
  /\ UNCHANGED <<other, resp, now, enable_cache, upstream_ids, feed_len, ncalls, hist, fanout>>

\* await client.<method>(...), inside the block or on the bare client
AwaitCall(op) ==
  /\ Quiet(Me)
  /\ ncalls < MaxCalls
  /\ ncalls' = ncalls + 1
  /\ Put(Begin(Me, op, now))
  /\ sync' = NoRun
  /\ UNCHANGED <<other, resp, now, enable_cache, upstream_ids, feed_len, hist, fanout, scope>>

\* client.<method>_sync(...): _run_sync up to the first await of the coroutine
SyncCall(op, in_loop) ==
  /\ Quiet(Me)
  /\ ncalls < MaxCalls
  /\ scope.pc = "inside" => in_loop
  /\ ncalls' = ncalls + 1
  /\ LET c == Begin(run_sync_reset(Me, in_loop), op, now)
     IN  /\ Put(run_with_cleanup(c))
         /\ sync' = SyncAfter([NoRun EXCEPT !.in_loop = in_loop, !.before = Len(conns)], c)
  /\ UNCHANGED <<other, resp, now, enable_cache, upstream_ids, feed_len, hist, fanout, scope>>

\* what _run_sync does once the coroutine has taken a step
Settle(c) ==
  /\ Put(IF sync.pc = "running" THEN run_with_cleanup(c) ELSE c)
  /\ sync' = IF sync.pc = "running" THEN SyncAfter(sync, c) ELSE sync

SessionRespondOk ==
  /\ call.pc = "request"
  /\ Settle(Ok(Me, now))
  /\ UNCHANGED <<other, resp, now, enable_cache, upstream_ids, feed_len, ncalls, hist, fanout, scope>>

SessionRespondFail(kind) ==
  /\ call.pc = "request"
  /\ Settle(Fail(Me, kind, now))
  /\ UNCHANGED <<other, resp, now, enable_cache, upstream_ids, feed_len, ncalls, hist, fanout, scope>>

SessionWake ==
  /\ call.pc = "backoff"
  /\ now >= call.wake
  /\ Settle(Woken(Me, now))
  /\ UNCHANGED <<other, resp, now, enable_cache, upstream_ids, feed_len, ncalls, hist, fanout, scope>>

NextSession ==
  \/ Tick
  \/ Enter
  \/ Exit
  \/ \E op \in SessionOps : AwaitCall(op)
  \/ \E op \in SessionOps, in_loop \in BOOLEAN : SyncCall(op, in_loop)
  \/ SessionRespondOk
  \/ \E kind \in Retryable \cup Fatal : SessionRespondFail(kind)
  \/ SessionWake

SpecSession == InitSession /\ [][NextSession]_vars

(***************************************************************************)
(* SpecLookup: get_player_price against every shape of getPlayersPrice     *)
(* response: per identifier no entry, an entry without "prices", or        *)
(* prices for any set of platforms.  The client is built with              *)
(* enable_cache=False, so that every call parses a response.               *)
(***************************************************************************)
\* what the response may hold for one identifier; <<>> stands for no entry
EntryShapes(id) ==
  {<<>>} \cup {<<EmptyDict>>}
    \cup {<<[prices |-> [q \in Q |-> RawPrice(id, q)]]>> : Q \in SUBSET Platform}

\* the response bodies: a JSON object keyed by str(id)
ResponseShapes ==
  {[x \in {Str(i) : i \in {j \in Ids : e[j] # <<>>}} |-> e[IdOf(Ids, x)][1]] :
     e \in {f \in [Ids -> UNION {EntryShapes(i) : i \in Ids}] :
              \A i \in Ids : f[i] \in EntryShapes(i)}}

LookupOps == [method : {"get_player_price"}, ids : [1..1 -> Ids], platform : Platform]

\* await client.get_player_price(player_id, platform), up to the first await
LookupCall(op) ==
  /\ Quiet(Me)
  /\ ncalls < MaxCalls
  /\ ncalls' = ncalls + 1
  /\ call' = BeginCall(op, cache, enable_cache, now)
  /\ cache' = cache_after_get(cache, enable_cache, CacheKey(op), now)
  /\ resp' = <<>>
  /\ UNCHANGED <<session, other, now, enable_cache, upstream_ids, feed_len, hist, fanout>>

\* the upstream answers 200 with `body`: parse, store, return
LookupRespond(body) ==
  /\ call.pc = "request"
  /\ call' = [call EXCEPT !.pc = "returned", !.attempts = @ + 1,
                          !.value = <<Parse(call.op, body)>>]
  /\ cache' = set_to_cache(cache, enable_cache, CacheKey(call.op), call'.value[1], now)
  /\ resp' = <<[body |-> body, at |-> now]>>
  /\ UNCHANGED <<session, other, now, enable_cache, upstream_ids, feed_len, ncalls, hist, fanout>>

NextLookup ==
  \/ \E op \in LookupOps : LookupCall(op)
  \/ \E body \in ResponseShapes : LookupRespond(body)

InitLookup ==
  /\ Init
  /\ ~enable_cache
  /\ upstream_ids = Ids
  /\ feed_len = 0

SpecLookup == InitLookup /\ [][NextLookup]_vars

(***************************************************************************)
(* SpecSearch: search_players (client.py:414-439).  Of the fields of       *)
(* PlayerSearchOptions the callers here set platform, page, min_rating and *)
(* max_rating; every other field keeps its default None and is not sent.   *)
(* The upstream holds players with the ratings of Ratings; a filtering     *)
(* upstream returns those inside the requested range, a stub upstream      *)
(* returns all of them whatever the parameters.                            *)
(***************************************************************************)
Ratings == <<80, 85, 90, 99>>

\* PlayerSearchOptions(...): <<>> is None
SearchOptions ==
  [platform : {"PS", "PC"}, page : {1},
   min_rating : {<<>>} \cup {<<Ratings[i]>> : i \in 1..Len(Ratings)},
   max_rating : {<<>>, <<Ratings[Len(Ratings)]>>}]

\* PlayerSearchOptions._add_minmax_param(params, key, min_val, max_val)
add_minmax_param(params, key, min_val, max_val) ==
  LET p1 == IF min_val # <<>> THEN DictSet(params, "min_" \o key, min_val[1]) ELSE params
  IN  IF max_val # <<>> THEN DictSet(p1, "max_" \o key, max_val[1]) ELSE p1

\* PlayerSearchOptions.to_params()
to_params(o) ==
  add_minmax_param(DictSet(DictSet(EmptyDict, "platform", o.platform), "page", o.page),
                   "rating", o.min_rating, o.max_rating)

\* params of search_players(options): options is <<>> for None
SearchParams(options) ==
  IF options # <<>> THEN to_params(options[1])
  ELSE DictSet(DictSet(EmptyDict, "platform", "PS"), "page", 1)

\* GET getFilteredPlayers?...: {"data": [...]}, the players inside the range
FilteredPlayersBody(params) ==
  LET inside(i) ==
        /\ ("min_rating" \in DOMAIN params => Ratings[i] >= params["min_rating"])
        /\ ("max_rating" \in DOMAIN params => Ratings[i] <= params["max_rating"])
      RECURSIVE pick(_)
      pick(i) == IF i > Len(Ratings) THEN <<>>
                 ELSE (IF inside(i) THEN <<[ID |-> <<i>>, rating |-> <<Ratings[i]>>]>> ELSE <<>>)
                        \o pick(i + 1)
  IN  [data |-> pick(1)]

\* the bodies an upstream may answer getFilteredPlayers?... with
SearchBodies(params) ==
  {FilteredPlayersBody(params), FilteredPlayersBody(EmptyDict)}

\* FullPlayer.from_api_response(item)
full_player_from_api_response(item) ==
  [futbin_id |-> DictGet(item, "ID", <<0>>)[1], rating |-> DictGet(item, "rating", <<0>>)[1]]

SearchOp(options) == [method |-> "search_players", options |-> options]

\* await client.search_players(options), up to the await of _api_get: the
\* cache is not read
SearchCall(options) ==
  /\ Quiet(Me)
  /\ ncalls < MaxCalls
  /\ ncalls' = ncalls + 1
  /\ call' = [IdleTask EXCEPT !.pc = "request", !.op = SearchOp(options)]
  /\ UNCHANGED <<session, other, resp, now, cache, enable_cache, upstream_ids, feed_len, hist, fanout>>

\* the attempt in flight is answered: parse and return; nothing is stored
SearchRespondOk ==
  /\ call.pc = "request"
  /\ call.op.method = "search_players"
  /\ \E body \in SearchBodies(SearchParams(call.op.options)) :
     LET items == DictGet(body, "data", <<>>)
     IN  /\ call' = [call EXCEPT !.pc = "returned", !.attempts = @ + 1,
                        !.value = <<[i \in 1..Len(items) |-> full_player_from_api_response(items[i])]>>]
         /\ resp' = <<[body |-> body, at |-> now]>>
  /\ UNCHANGED <<session, other, now, cache, enable_cache, upstream_ids, feed_len, ncalls, hist, fanout>>

InitSearch ==
  /\ Init
  /\ upstream_ids = Ids
  /\ feed_len = 0

NextSearch ==
  \/ Tick
  \/ \E options \in {<<>>} \cup {<<o>> : o \in SearchOptions} : SearchCall(options)
  \/ SearchRespondOk
  \/ \E kind \in Retryable \cup Fatal : RespondFail(kind)
  \/ Wake

SpecSearch == InitSearch /\ [][NextSearch]_vars

(***************************************************************************)
(* SpecModes: the two calling conventions side by side.  The client in the *)
(* variables is called through the *_sync wrappers; the client in `other`  *)
(* is given the same calls as `async with client: await client.<method>`,  *)
(* and the transport gives both the same answers.  The upstream knows      *)
(* every identifier but the last and its listings are MaxFeed long.        *)
(***************************************************************************)
\* a table with the wrapper of get_totw bound to the coroutine next to it
run_sync_target_slip(method) ==
  CASE method = "get_player_price_sync" -> "get_player_price"
    [] method = "get_player_price_by_resource_id_sync" -> "get_player_price_by_resource_id"
    [] method = "get_players_prices_sync" -> "get_players_prices"
    [] method = "get_popular_players_sync" -> "get_popular_players"
    [] method = "get_totw_sync" -> "get_latest_players"
    [] method = "get_latest_players_sync" -> "get_latest_players"
    [] method = "get_leagues_and_clubs_sync" -> "get_leagues_and_clubs"
    [] OTHER -> "get_card_versions"

\* the coroutine each wrapper hands to _run_sync (client.py:257-551)
run_sync_target(method) ==
  CASE method = "get_player_price_sync" -> "get_player_price"
    [] method = "get_player_price_by_resource_id_sync" -> "get_player_price_by_resource_id"
    [] method = "get_players_prices_sync" -> "get_players_prices"
    [] method = "get_popular_players_sync" -> "get_popular_players"
    [] method = "get_totw_sync" -> "get_totw"
    [] method = "get_latest_players_sync" -> "get_latest_players"
    [] method = "get_leagues_and_clubs_sync" -> "get_leagues_and_clubs"
    [] OTHER -> "get_card_versions"

\* the *_sync form of a facade method
SyncForm(method) ==
  CASE method = "get_player_price" -> "get_player_price_sync"
    [] method = "get_player_price_by_resource_id" -> "get_player_price_by_resource_id_sync"
    [] method = "get_players_prices" -> "get_players_prices_sync"
    [] method = "get_popular_players" -> "get_popular_players_sync"
    [] method = "get_totw" -> "get_totw_sync"
    [] method = "get_latest_players" -> "get_latest_players_sync"
    [] method = "get_leagues_and_clubs" -> "get_leagues_and_clubs_sync"
    [] OTHER -> "get_card_versions_sync"

\* the block `async with client:` around one await: left as soon as it is over
ScopedAfter(c) ==
  IF Finished(c) THEN aexit(c, IF c.call.pc = "raised" THEN c.call.err ELSE "") ELSE c

\* client.<method>_sync(args) on one client, async with + await on the other
ModeCall(op, in_loop) ==
  /\ Quiet(Me) /\ Quiet(other)
  /\ ncalls < MaxCalls
  /\ ncalls' = ncalls + 1
  /\ LET target == [op EXCEPT !.method = run_sync_target(SyncForm(op.method))]
         c == Begin(run_sync_reset(Me, in_loop), target, now)
     IN  /\ Put(run_with_cleanup(c))
         /\ sync' = SyncAfter([NoRun EXCEPT !.in_loop = in_loop, !.before = Len(conns)], c)
  /\ other' = ScopedAfter(Begin(aenter(other), op, now))
  /\ UNCHANGED <<resp, now, enable_cache, upstream_ids, feed_len, hist, fanout, scope>>

\* one step of the coroutine on each client that is at that step
ModeStep(here, there) ==
  /\ IF here = Me THEN UNCHANGED <<cache, call, async_client, conns, sync>> ELSE Settle(here)
  /\ other' = ScopedAfter(there)
  /\ UNCHANGED <<resp, now, enable_cache, upstream_ids, feed_len, ncalls, hist, fanout, scope>>

ModeRespondOk ==
  /\ call.pc = "request" \/ other.call.pc = "request"
  /\ ModeStep(IF call.pc = "request" THEN Ok(Me, now) ELSE Me,
              IF other.call.pc = "request" THEN Ok(other, now) ELSE other)

ModeRespondFail(kind) ==
  /\ call.pc = "request" \/ other.call.pc = "request"
  /\ ModeStep(IF call.pc = "request" THEN Fail(Me, kind, now) ELSE Me,
              IF other.call.pc = "request" THEN Fail(other, kind, now) ELSE other)

ModeWake ==
  /\ \/ call.pc = "backoff" /\ now >= call.wake
     \/ other.call.pc = "backoff" /\ now >= other.call.wake
  /\ ModeStep(IF call.pc = "backoff" /\ now >= call.wake THEN Woken(Me, now) ELSE Me,
              IF other.call.pc = "backoff" /\ now >= other.call.wake
              THEN Woken(other, now) ELSE other)

NextModes ==
  \/ Tick
  \/ \E op \in Ops, in_loop \in BOOLEAN : ModeCall(op, in_loop)
  \/ ModeRespondOk
  \/ \E kind \in Retryable \cup Fatal : ModeRespondFail(kind)
  \/ ModeWake

InitModes ==
  /\ Init
  /\ upstream_ids = Ids \ {MaxId}
  /\ feed_len = MaxFeed

SpecModes == InitModes /\ [][NextModes]_vars

(***************************************************************************)
(* SpecRace: facade calls made as concurrent tasks on one client with the  *)
(* cache enabled (asyncio.gather(client.get_player_price(...), ...)),      *)
(* while the upstream changes its price book.  tasks[i] is the i-th call.  *)
(* The upstream answers a request from the book it has at that moment; the *)
(* response reaches the client later, and responses of different requests  *)
(* may arrive in either order.  resp lists the answers in the order the    *)
(* upstream gave them: [task, known], known being the book answered from.  *)
(* done lists the calls in the order they finished.                        *)
(***************************************************************************)
RaceOps == [method : {"get_player_price"}, ids : [1..1 -> Ids], platform : {"PS"}]

\* the answers the upstream has given to the request of call i
AnswersTo(i) == {k \in 1..Len(resp) : resp[k].task = i}

InitRace ==
  /\ InitBatch
  /\ enable_cache

\* a task starts client.get_player_price(...) and runs it up to its first await
RaceCall(op) ==
  /\ Len(tasks) < MaxRacers
  /\ LET t == BeginCall(op, cache, enable_cache, now)
     IN  /\ tasks' = Append(tasks, t)
         /\ done' = IF t.pc = "returned" THEN Append(done, Len(tasks) + 1) ELSE done
  /\ cache' = cache_after_get(cache, enable_cache, CacheKey(op), now)
  /\ UNCHANGED <<session, other, resp, now, enable_cache, upstream_ids, feed_len, call, ncalls, hist,
                 orch, sem, waiters, peer>>

\* the upstream answers the request of call i from its present book
Answer(i) ==
  /\ tasks[i].pc = "request"
  /\ AnswersTo(i) = {}
  /\ resp' = Append(resp, [task |-> i, known |-> upstream_ids])
  /\ UNCHANGED <<session, other, now, cache, enable_cache, upstream_ids, feed_len, call, ncalls, hist, fanout>>

\* the response to call i arrives: the call parses it, stores the result and
\* returns
Deliver(i) ==
  /\ tasks[i].pc = "request"
  /\ \E k \in AnswersTo(i) :
       LET t == AfterSuccess(tasks[i], resp[k].known, feed_len)
       IN  /\ tasks' = [tasks EXCEPT ![i] = t]
           /\ cache' = set_to_cache(cache, enable_cache, CacheKey(t.op), t.value[1], now)
  /\ done' = Append(done, i)
  /\ UNCHANGED <<session, other, resp, now, enable_cache, upstream_ids, feed_len, call, ncalls, hist,
                 orch, sem, waiters, peer>>

\* the upstream replaces its price book
Publish(known) ==
  /\ known # upstream_ids
  /\ upstream_ids' = known
  /\ UNCHANGED <<session, other, resp, now, cache, enable_cache, feed_len, call, ncalls, hist, fanout>>

NextRace ==
  \/ Tick
  \/ \E op \in RaceOps : RaceCall(op)
  \/ \E i \in 1..Len(tasks) : Answer(i)
  \/ \E i \in 1..Len(tasks) : Deliver(i)
  \/ \E known \in SUBSET Ids : Publish(known)

SpecRace == InitRace /\ [][NextRace]_vars

(***************************************************************************)
(* Retry policy.                                                           *)
(***************************************************************************)
\* C1: a call whose attempts all fail with a timeout or connection error
\* raises only after exactly 3 upstream attempts, and no call ever makes more
\* than 3.
C1_RetryBound ==
  /\ call.attempts <= 3
  /\ (call.pc = "raised" /\ call.last_failure \in Retryable => call.attempts = 3)
  /\ (call.attempts = 3 /\ call.pc # "returned" => call.pc = "raised")

C1_Witness == call.pc = "raised" /\ call.last_failure = "Timeout" /\ call.attempts = 3

\* C2: after the retries are exhausted the error the caller sees has the kind
\* of the last observed failure.
C2_OriginalKindReraised ==
  call.pc = "raised" /\ call.last_failure \in Retryable => call.err = call.last_failure

\* C3: an HTTP status error or a parsing failure is never retried: the call
\* has raised that very kind, and when it was the first attempt that failed
\* the call made exactly one attempt.
C3_FatalNotRetried ==
  call.last_failure \in Fatal => call.pc = "raised" /\ call.err = call.last_failure

C3_Witness == call.pc = "raised" /\ call.err = "HTTPStatus" /\ call.attempts = 1

(***************************************************************************)
(* Response cache.                                                         *)
(***************************************************************************)
\* the step that begins a facade call
Begins == ncalls' = ncalls + 1

\* C4: a call served from the cache reads an entry younger than the TTL; a
\* call made at or after T + ttl, T the key's last insertion, misses and
\* starts an upstream fetch.
C4_NoStaleRead ==
  [][Begins =>
       LET k == CacheKey(call'.op)
       IN  /\ call'.hit => k \in DOMAIN hist /\ now < hist[k].t + cache_ttl
           /\ (k \in DOMAIN hist /\ now >= hist[k].t + cache_ttl
                 => ~call'.hit /\ call'.pc = "request")]_vars

\* an entry of age >= ttl is still stored, and the call for its key is fetching
C4_Witness ==
  /\ call.pc = "request"
  /\ CacheIndex(cache, CacheKey(call.op)) # {}
  /\ CacheKey(call.op) \in DOMAIN hist
  /\ now >= hist[CacheKey(call.op)].t + cache_ttl

\* what a client built with enable_cache=False returns for the operation
UncachedValue(op) == AfterSuccess(BeginCall(op, <<>>, FALSE, now), upstream_ids, feed_len).value

C6_HitShortCircuits ==
  [][Begins /\ enable_cache =>
       LET k == CacheKey(call'.op)
       IN  (k \in DOMAIN hist /\ hist[k].live /\ now < hist[k].t + cache_ttl)
             => /\ call'.pc = "returned"
                /\ call'.attempts = 0
                /\ call'.value = <<hist[k].v>>]_vars

\* a listing call answered from the cache with an empty list
C6_Witness ==
  /\ call.pc = "returned" /\ call.hit /\ call.attempts = 0
  /\ call.op.method \in ListMethods /\ call.value = << <<>> >>

\* C18 as stated: with caching enabled, an entry inserted at T and not
\* cleared is read as a hit with the inserted value at every time before
\* T + ttl, whatever calls were made in between.
C18_TTLPresence ==
  enable_cache =>
    \A k \in DOMAIN hist :
      ~hist[k].cleared /\ now < hist[k].t + cache_ttl
        => get_from_cache(cache, enable_cache, k, now) = <<hist[k].v>>

\* C18, amended: an entry inserted at T is read as a hit with the inserted
\* value at every time before T + ttl, unless a later insertion of another key
\* evicted it for room (the store holds cache_maxsize entries) or the cache
\* was cleared.
C18_TTLPresenceUnlessEvicted ==
  enable_cache =>
    \A k \in DOMAIN hist :
      hist[k].live /\ now < hist[k].t + cache_ttl
        => get_from_cache(cache, enable_cache, k, now) = <<hist[k].v>>

\* an entry one tick old, still readable after a call for another key failed
C18_Witness ==
  /\ enable_cache /\ ncalls = 2 /\ call.pc = "raised"
  /\ \E k \in DOMAIN hist :
       /\ k # CacheKey(call.op) /\ hist[k].live
       /\ now = hist[k].t + 1 /\ now < hist[k].t + cache_ttl
       /\ get_from_cache(cache, enable_cache, k, now) = <<hist[k].v>>

(***************************************************************************)
(* Single lookups (checked under SpecLookup).                              *)
(***************************************************************************)
\* the response has no entry for the identifier, no "prices" in the entry, or
\* no prices for the platform
Missing(body, op) ==
  \/ Str(op.ids[1]) \notin DOMAIN body
  \/ "prices" \notin DOMAIN body[Str(op.ids[1])]
  \/ op.platform \notin DOMAIN body[Str(op.ids[1])].prices

\* C17: a get_player_price call whose response lacks the identifier, its
\* prices object or the platform returns price=0, min_price=0, max_price=0.
C17_ZeroOnMissing ==
  resp # <<>> /\ Missing(resp[1].body, call.op) =>
    /\ call.pc = "returned"
    /\ call.value[1].price = 0
    /\ call.value[1].min_price = 0
    /\ call.value[1].max_price = 0

\* the identifier is in the response with prices for another platform only
C17_Witness ==
  /\ resp # <<>> /\ call.pc = "returned"
  /\ Str(call.op.ids[1]) \in DOMAIN resp[1].body
  /\ "prices" \in DOMAIN resp[1].body[Str(call.op.ids[1])]
  /\ DOMAIN resp[1].body[Str(call.op.ids[1])].prices = {"PC"}
  /\ call.op.platform = "PS"
  /\ call.value[1] = ZeroPrice

(***************************************************************************)
(* Search (checked under SpecSearch).                                      *)
(***************************************************************************)
\* C19: with caching enabled, a search that has returned has left its result
\* in the cache, and a search with the same criteria begun less than ttl after
\* that answer returns at once without an upstream request.
C19_SearchCached ==
  /\ [](enable_cache /\ call.pc = "returned" /\ call.op.method = "search_players"
          => \E i \in 1..Len(cache) : cache[i].value = call.value[1])
  /\ [][Begins /\ enable_cache /\ call.pc = "returned" /\ call'.op = call.op
          /\ resp # <<>> /\ now < resp[1].at + cache_ttl
          => call'.pc = "returned" /\ call'.attempts = 0]_vars

\* C21: a search with min_rating=85 and no other filter returns only records
\* rated 85 or more: from an upstream that answers with the records rated
\* 80, 85, 90 and 99 it returns exactly the three rated 85, 90 and 99.
C21_RatingFilter ==
  /\ call.pc = "returned"
  /\ call.op.method = "search_players"
  /\ call.op.options # <<>>
  /\ call.op.options[1].min_rating = <<85>>
  /\ call.op.options[1].max_rating = <<>>
  => /\ \A i \in 1..Len(call.value[1]) : call.value[1][i].rating >= 85
     /\ Len(resp[1].body.data) = Len(Ratings)
          => [i \in 1..Len(call.value[1]) |-> call.value[1][i].rating] = <<85, 90, 99>>

(***************************************************************************)
(* Bulk lookups and the batch fan-out (checked under SpecBatch).           *)
(***************************************************************************)
\* the mapping get_players_prices returns when called once with the whole list
SequentialValue(ids, p) ==
  AfterSuccess(BeginCall(BulkOp(ids, p), <<>>, FALSE, now), upstream_ids, feed_len).value

\* C7: the mapping the concurrent lookup returns has the same keys and the
\* same values as the one get_players_prices returns for the whole list.
C7_ConcurrentEqualsSequential ==
  orch.pc = "returned" => orch.value = SequentialValue(orch.ids, orch.platform)

\* two batches, one identifier known to the upstream and one unknown
C7_Witness ==
  /\ orch.pc = "returned" /\ Len(tasks) = 2
  /\ orch.ids[1] \in upstream_ids /\ orch.ids[2] \notin upstream_ids

\* C8: a concurrent lookup that returns holds exactly one entry per distinct
\* input identifier, and maps the identifiers the upstream does not know to
\* the zero-valued record.
C8_NoSilentDrop ==
  orch.pc = "returned" =>
    /\ DOMAIN orch.value[1] = {Str(i) : i \in Range(orch.ids)}
    /\ \A i \in Range(orch.ids) \ upstream_ids : orch.value[1][Str(i)] = ZeroPrice

\* a duplicated identifier, unknown to the upstream, split over two batches
C8_Witness ==
  /\ orch.pc = "returned" /\ Len(tasks) = 2
  /\ orch.ids[1] = orch.ids[2] /\ orch.ids[1] \notin upstream_ids

\* the price the upstream holds for a known identifier, as a typed record
BookPrice(id, p) ==
  [price |-> RawPrice(id, p).LCPrice[1],
   min_price |-> IF RawPrice(id, p).MinPrice = <<>> THEN 0 ELSE RawPrice(id, p).MinPrice[1],
   max_price |-> RawPrice(id, p).MaxPrice[1],
   updated |-> RawPrice(id, p).updated]

\* C9: every get_players_prices call that returns maps each distinct
\* identifier it was given, by its string form, to the upstream's price for
\* the platform when the upstream knows it and to price=0, min_price=0,
\* max_price=0 when it does not.
C9_SequentialBulk ==
  \A n \in 1..Len(tasks) :
    tasks[n].pc = "returned" =>
      LET ids == tasks[n].op.ids
          res == tasks[n].value[1]
      IN  /\ DOMAIN res = {Str(i) : i \in Range(ids)}
          /\ \A i \in Range(ids) :
               IF i \in upstream_ids
               THEN res[Str(i)] = BookPrice(i, tasks[n].op.platform)
               ELSE /\ res[Str(i)].price = 0
                    /\ res[Str(i)].min_price = 0
                    /\ res[Str(i)].max_price = 0

\* one request for two identifiers, the first known and the second not
C9_Witness ==
  \E n \in 1..Len(tasks) :
    /\ tasks[n].pc = "returned" /\ ~tasks[n].hit /\ Len(tasks[n].op.ids) = 2
    /\ tasks[n].op.ids[1] \in upstream_ids /\ tasks[n].op.ids[2] \notin upstream_ids

\* C10: the batch calls in flight, backoff included, never outnumber
\* max_concurrency.
C10_GateBound == Cardinality(InFlight) <= orch.max_concurrency

\* the gate is full, one batch inside it is backing off and another waits
C10_Witness ==
  /\ Cardinality(InFlight) = orch.max_concurrency
  /\ waiters # <<>>
  /\ \E i \in InFlight : tasks[i].pc = "backoff"

\* C12: as soon as one batch call has raised, the concurrent lookup has raised
\* the error of the first batch that failed and holds no mapping; it returns
\* only when every batch has returned.
C12_WholeCallFailure ==
  /\ (\E i \in 1..Len(tasks) : tasks[i].pc = "raised") =>
       /\ orch.pc = "raised"
       /\ orch.value = <<>>
       /\ LET first == CHOOSE k \in 1..Len(done) :
                         /\ tasks[done[k]].pc = "raised"
                         /\ \A j \in 1..(k - 1) : tasks[done[j]].pc # "raised"
          IN  orch.err = tasks[done[first]].err
  /\ (orch.pc = "returned" => \A i \in 1..Len(tasks) : tasks[i].pc = "returned")

\* the first batch has returned its prices, the second has failed
C12_Witness ==
  /\ orch.pc = "raised" /\ Len(tasks) = 2
  /\ tasks[1].pc = "returned" /\ ~tasks[1].hit /\ tasks[2].pc = "raised"

\* each batch's own answer, merged in the order of the batches
MergedInBatchOrder(ids, p, batch_size) ==
  LET batches == Batches(ids, batch_size)
  IN  Merge(EmptyDict,
            [i \in 1..Len(batches) |->
               Parse(BulkOp(batches[i], p),
                     ApiBody(upstream_ids, feed_len, Request(BulkOp(batches[i], p))))])

\* C13: whatever the order in which the batches passed the gate and
\* completed, the mapping returned is the one fixed by the identifier list,
\* the platform, batch_size and the upstream data.
C13_MergeOrderIndependent ==
  orch.pc = "returned" =>
    orch.value = <<MergedInBatchOrder(orch.ids, orch.platform, orch.batch_size)>>

\* the same identifier in two batches, the second batch completing first
C13_Witness ==
  /\ orch.pc = "returned" /\ Len(tasks) = 2 /\ done = <<2, 1>>
  /\ orch.ids[1] = orch.ids[2]

\* C20: once the concurrent lookup is cancelled no batch call is in flight,
\* waiting or still to start, every slot of the gate is free, and from then
\* on no batch makes another attempt or takes another step.
C20_Cancellation ==
  /\ [](orch.pc = "cancelled" =>
          /\ \A i \in 1..Len(tasks) : tasks[i].pc \in {"returned", "raised", "cancelled"}
          /\ waiters = <<>>
          /\ sem = orch.max_concurrency)
  /\ [][orch.pc = "cancelled" => tasks' = tasks /\ sem' = sem]_vars

\* cancelled with one batch in its backoff sleep and another not yet admitted
C20_Witness ==
  /\ orch.pc = "cancelled"
  /\ \E i, j \in 1..Len(tasks) :
       /\ tasks[i].pc = "cancelled" /\ tasks[i].attempts = 1 /\ tasks[i].wake > now
       /\ tasks[j].pc = "cancelled" /\ tasks[j].attempts = 0

\* C11: while two concurrent lookups with the same max_concurrency run on the
\* client, the batch calls in flight in both together never outnumber
\* max_concurrency.
C11_GateSharedByClient ==
  orch.pc = "gather" /\ peer.orch.pc = "gather"
    /\ orch.max_concurrency = peer.orch.max_concurrency
    => Cardinality(InFlight) + Cardinality(PeerInFlight) <= orch.max_concurrency

(***************************************************************************)
(* Connection lifetime (checked under SpecSession).                        *)
(***************************************************************************)
\* C14: the step that leaves the `async with` block, normally or with an
\* exception, ends with the connection opened on entry closed and with
\* _async_client None.
C14_ScopedRelease ==
  [][scope.pc = "inside" /\ scope'.pc = "left"
       => conns'[scope.conn[1]] = "closed" /\ async_client' = <<>>]_vars

\* the block was left because the call inside it raised after its retries
C14_Witness ==
  /\ scope.pc = "left" /\ scope.exc = "RetryError"
  /\ conns[scope.conn[1]] = "closed" /\ async_client = <<>>

C16_ModeEquivalence ==
  /\ Finished(Me) <=> Finished(other)
  /\ Finished(Me) =>
       /\ other.call.pc = call.pc
       /\ other.call.value = call.value
       /\ other.call.err = call.err
       /\ other.cache = cache

\* the second pair of calls is answered from the caches the first pair left
C16_Witness ==
  /\ ncalls = 2 /\ call.pc = "returned" /\ call.hit /\ other.call.hit
  /\ call.op.method = "get_totw" /\ sync.pc = "finished"
  /\ other.conns = <<"closed", "closed">> /\ conns = <<"closed">>

\* C28: once get_players_prices_concurrent has raised to its caller, no
\* batch of it is inside the gate, and from then on no batch sends a request,
\* takes a slot or writes the cache.
C28_QuiescentAfterFailure ==
  /\ [](orch.pc = "raised" => InFlight = {})
  /\ [][orch.pc = "raised" => tasks' = tasks /\ sem' = sem /\ cache' = cache]_vars

\* C29 (checked under SpecBatchFair): every batch that has not yet passed
\* the gate eventually passes it, and a call that awaits its batches
\* eventually returns a mapping or raises.
C29_Termination ==
  /\ \A i \in 1..MaxLen :
       (i <= Len(tasks) /\ tasks[i].pc \in {"created", "waiting"})
         ~> (i <= Len(tasks) /\ tasks[i].pc \notin {"created", "waiting"})
  /\ (orch.pc = "gather") ~> (orch.pc \in {"returned", "raised"})

\* behind a gate of one slot the first batch gave up after three timeouts;
\* the second, which had to wait for the slot, got it and returned
C29_Witness ==
  /\ orch.pc = "raised" /\ orch.max_concurrency = 1
  /\ Len(tasks) = 2
  /\ tasks[1].pc = "raised" /\ tasks[1].attempts = 3
  /\ tasks[2].pc = "returned"
  /\ done = <<1, 2>>
  /\ sem = 1

\* C30 (checked under SpecParams): a call with a non-empty identifier list
\* and a batch_size or max_concurrency of zero or less has raised by the
\* time it would start to wait for its batches: it neither waits nor
\* returns a mapping.
C30_InvalidRejected ==
  /\ orch.pc # "idle"
  /\ orch.ids # <<>>
  /\ orch.batch_size <= 0 \/ orch.max_concurrency <= 0
  => orch.pc = "raised"

(***************************************************************************)
(* What the cache holds (checked under Spec).                              *)
(***************************************************************************)
\* C23: the cache is written only after a successful fetch and parse.  A call
\* that misses leaves the store as it is while it is in progress, and as it
\* is when it raises, so a call that ends in an error leaves the cache as it
\* was before the call; and every entry's value is the parse of the
\* upstream's answer to the request its key describes.
C23_WrittenOnlyOnSuccess ==
  /\ [](\A i \in 1..Len(cache) :
          /\ \E op \in Ops : CacheKey(op) = cache[i].key
          /\ \A op \in Ops : CacheKey(op) = cache[i].key =>
               cache[i].value = Parse(op, ApiBody(upstream_ids, feed_len, Request(op))))
  /\ [][/\ (Begins /\ call'.pc = "request" => cache' = cache)
        /\ (call.pc \in {"request", "backoff"} /\ call'.pc # "returned" => cache' = cache)]_vars

\* a lookup gave up after its third timeout; the entry an earlier call for
\* another key had stored is still the only one
C23_Witness ==
  /\ call.pc = "raised" /\ call.err = "RetryError" /\ call.attempts = 3
  /\ Len(cache) = 1
  /\ cache[1].key # CacheKey(call.op)

\* C24: the store never holds more than cache_maxsize entries; a call that
\* stores a new key while the store is full of unexpired entries returns its
\* value, and the store then holds the new key in place of an older one.
C24_SizeBound ==
  /\ [](Len(cache) <= cache_maxsize)
  /\ [][/\ enable_cache
        /\ call.pc = "request" /\ call'.pc = "returned"
        /\ Len(SelectLive(cache, now)) = cache_maxsize
        /\ CacheKey(call.op) \notin Keys(cache)
        => /\ call'.value # <<>>
           /\ CacheContains(cache', CacheKey(call.op), now)
           /\ Len(cache') = cache_maxsize
           /\ \E k \in Keys(cache) : k \notin Keys(cache')]_vars

\* the store is full with the key of the call that has just returned; the
\* key stored before it was evicted while still fresh
C24_Witness ==
  /\ call.pc = "returned" /\ ~call.hit
  /\ Len(cache) = cache_maxsize
  /\ CacheContains(cache, CacheKey(call.op), now)
  /\ \E k \in DOMAIN hist :
       ~hist[k].live /\ ~hist[k].cleared /\ now < hist[k].t + cache_ttl

(***************************************************************************)
(* Racing calls (checked under SpecRace).                                  *)
(***************************************************************************)
\* the calls of operation op that missed the cache
Missers(op) == {i \in 1..Len(tasks) : tasks[i].op = op /\ ~tasks[i].hit}

\* the member of the non-empty set S of indices into seq that comes last:
\* by(seq[n]) is the call the n-th element belongs to
LastOf(S, seq, by(_)) ==
  by(seq[CHOOSE n \in 1..Len(seq) :
           /\ by(seq[n]) \in S
           /\ \A m \in (n + 1)..Len(seq) : by(seq[m]) \notin S])

Self(x) == x
TaskOf(r) == r.task

\* C22: concurrent calls of one operation with the same arguments that all
\* miss the cache each make their own upstream request; at the step with
\* which the last of them returns, the cache holds exactly one entry under
\* their key, and its value is the result of the call that finished last.
C22_LastWriteWins ==
  [][\A op \in RaceOps :
       LET M == Missers(op)'
       IN  /\ Cardinality(M) >= 2
           /\ \A i \in M : tasks'[i].pc = "returned"
           /\ \E i \in M : i <= Len(tasks) /\ tasks[i].pc # "returned"
           => /\ \A i \in M : tasks'[i].attempts = 1 /\ AnswersTo(i)' # {}
              /\ Cardinality(CacheIndex(cache', CacheKey(op))) = 1
              /\ CacheEntry(cache', CacheKey(op)).value
                   = tasks'[LastOf(M, done', Self)].value[1]]_vars

\* two calls for the same player both missed; the upstream learned the player
\* between its two answers; the call that got the older answer finished last
\* and the cache holds its zero price
C22_Witness ==
  /\ Len(tasks) = 2 /\ tasks[1].op = tasks[2].op
  /\ ~tasks[1].hit /\ ~tasks[2].hit
  /\ tasks[1].pc = "returned" /\ tasks[2].pc = "returned"
  /\ tasks[1].value # tasks[2].value
  /\ done = <<2, 1>>
  /\ cache = <<[key |-> CacheKey(tasks[1].op), value |-> ZeroPrice, expires |-> now + cache_ttl]>>

\* C27: when concurrent calls with the same cache key all missed and all
\* fetched, the value left in the cache once they have finished is the
\* result of the response the upstream gave last.
C27_NoRegression ==
  \A op \in RaceOps :
    /\ Cardinality(Missers(op)) >= 2
    /\ \A i \in Missers(op) : tasks[i].pc = "returned"
    => /\ CacheIndex(cache, CacheKey(op)) # {}
       /\ CacheEntry(cache, CacheKey(op)).value
            = tasks[LastOf(Missers(op), resp, TaskOf)].value[1]

(***************************************************************************)
(* The connections a client leaves behind (checked under SpecSession).     *)
(***************************************************************************)
\* C25: no connection is left open without a reference to it: every open
\* connection the client has created is the one _async_client refers to, so
\* a reference is only ever replaced or reset once its connection is closed.
C25_NoOrphan ==
  \A n \in 1..Len(conns) : conns[n] = "open" => async_client = <<n>>

\* C26: when a *_sync call made inside an `async with` block has returned or
\* raised, the connection the block opened is still open and is still the
\* one _async_client refers to.
C26_SyncKeepsScopeConnection ==
  scope.pc = "inside" /\ sync.pc = "finished"
    => conns[scope.conn[1]] = "open" /\ async_client = scope.conn

====
